---------------------------- MODULE Spec2Model ----------------------------
(***************************************************************************)
(* Hydration tracker (src/App.js): the entry log, the entry and goal       *)
(* forms, the delete confirmation, the aggregation (totalOunces,           *)
(* remainingToGoal, totalsByDate) and the calendar screen (getMonthGrid,   *)
(* fill fractions, progress summary, month navigation).                    *)
(*                                                                         *)
(* JavaScript values are modelled as follows.                              *)
(*   - a string is a sequence of one-character strings;                    *)
(*   - a number is a record [k, v]: k = "num" with the integer v, or       *)
(*     k = "inf" / "ninf" / "nan" (v = 0).  Parsed numbers are integers:   *)
(*     the input alphabet has no "." and no exponent.  A quotient that is  *)
(*     not an integer is the exact fraction [k = "rat", v, d]; IEEE        *)
(*     rounding is not modelled;                                           *)
(*   - null and undefined are the records JSNull and JSUndef;              *)
(*   - a time value (ms since the epoch, ECMAScript 21.4.1) is the record  *)
(*     [day, ms] of Day(t) and TimeWithinDay(t); NaNTime is the time value *)
(*     of an invalid Date.                                                 *)
(***************************************************************************)
EXTENDS Integers, Sequences, FiniteSets, TLC

VARIABLES
    entries,           \* App.js:108  the entry log, newest first
    modalVisible,      \* App.js:109
    ounces,            \* App.js:110  text of the ounces field
    timeOfDay,         \* App.js:111
    editingId,         \* App.js:112
    goalOunces,        \* App.js:115
    goalModalVisible,  \* App.js:116
    goalInput,         \* App.js:117
    currentScreen,     \* App.js:120
    calendarDate,      \* App.js:19   state of the mounted CalendarScreen
    pendingDelete,     \* App.js:195  ids captured by the open delete confirmations
    alert,             \* title of the Alert raised by the last handler, or "none"
    now,               \* the device clock (Date.now()), a time value
    tz,                \* the device's UTC offset in minutes (local = UTC + tz)
    call,              \* arguments of a pure function under test
    ret                \* its result

vars == <<entries, modalVisible, ounces, timeOfDay, editingId, goalOunces,
          goalModalVisible, goalInput, currentScreen, calendarDate,
          pendingDelete, alert, now, tz, call, ret>>

appVars == <<entries, modalVisible, ounces, timeOfDay, editingId, goalOunces,
             goalModalVisible, goalInput, currentScreen, calendarDate,
             pendingDelete, alert, now, tz>>

-----------------------------------------------------------------------------
(* Bounds of the model.                                                    *)

MaxEntries == 2      \* length of the entry log
MaxPending == 1      \* delete confirmations open at once
MaxNav == 1          \* months the calendar is navigated away from the current one

-----------------------------------------------------------------------------
(* JavaScript numbers.                                                     *)

Num(n) == [k |-> "num", v |-> n]
PosInf == [k |-> "inf", v |-> 0]
NegInf == [k |-> "ninf", v |-> 0]
NaN == [k |-> "nan", v |-> 0]
JSNull == [k |-> "null", v |-> 0]
JSUndef == [k |-> "undef", v |-> 0]
Str(s) == [k |-> "str", v |-> s]

\* Number.isFinite
NumberIsFinite(x) == x.k = "num"

\* Number.isNaN
NumberIsNaN(x) == x.k = "nan"

\* x + y on numbers
JSAdd(x, y) ==
    IF x.k = "nan" \/ y.k = "nan" THEN NaN
    ELSE IF x.k = "inf" THEN (IF y.k = "ninf" THEN NaN ELSE PosInf)
    ELSE IF x.k = "ninf" THEN (IF y.k = "inf" THEN NaN ELSE NegInf)
    ELSE IF y.k = "inf" THEN PosInf
    ELSE IF y.k = "ninf" THEN NegInf
    ELSE Num(x.v + y.v)

\* -x
JSNeg(x) ==
    CASE x.k = "inf" -> NegInf
      [] x.k = "ninf" -> PosInf
      [] x.k = "nan" -> NaN
      [] OTHER -> Num(0 - x.v)

\* x - y
JSSub(x, y) == JSAdd(x, JSNeg(y))

\* x < y (false when either is NaN)
JSLess(x, y) ==
    IF x.k = "nan" \/ y.k = "nan" THEN FALSE
    ELSE IF x.k = "ninf" THEN y.k # "ninf"
    ELSE IF x.k = "inf" THEN FALSE
    ELSE IF y.k = "inf" THEN TRUE
    ELSE IF y.k = "ninf" THEN FALSE
    ELSE x.v < y.v

\* x <= y (false when either is NaN)
JSLessEq(x, y) ==
    IF x.k = "nan" \/ y.k = "nan" THEN FALSE ELSE ~JSLess(y, x)

\* Math.max(x, y)
MathMax(x, y) ==
    IF x.k = "nan" \/ y.k = "nan" THEN NaN
    ELSE IF JSLess(x, y) THEN y ELSE x

\* A finite number that is not an integer is the fraction v / d in lowest
\* terms, d > 1: the quotient of two integers is kept exact.
Rat(n, d) == [k |-> "rat", v |-> n, d |-> d]

\* numerator and denominator of a finite number
NumOf(x) == x.v
DenOf(x) == IF x.k = "rat" THEN x.d ELSE 1

RECURSIVE GCD(_, _)
GCD(a, b) == IF b = 0 THEN a ELSE GCD(b, a % b)

Abs(n) == IF n < 0 THEN 0 - n ELSE n

\* the finite number n / d, d # 0
Quotient(n, d) ==
    LET g == GCD(Abs(n), Abs(d))
        sn == IF d < 0 THEN 0 - n ELSE n
        nn == sn \div g
        dd == Abs(d) \div g
    IN IF dd = 1 THEN Num(nn) ELSE Rat(nn, dd)

\* x / y on numbers (every zero is +0)
JSDiv(x, y) ==
    IF x.k = "nan" \/ y.k = "nan" THEN NaN
    ELSE IF x.k \in {"inf", "ninf"}
         THEN IF y.k \in {"inf", "ninf"} THEN NaN
              ELSE IF NumOf(y) >= 0 THEN x ELSE JSNeg(x)
    ELSE IF y.k \in {"inf", "ninf"} THEN Num(0)
    ELSE LET n == NumOf(x) * DenOf(y)
             d == DenOf(x) * NumOf(y)
         IN IF d # 0 THEN Quotient(n, d)
            ELSE IF n = 0 THEN NaN
            ELSE IF n > 0 THEN PosInf ELSE NegInf

\* x < y on numbers, fractions included (false when either is NaN)
FracLess(x, y) ==
    IF x.k = "nan" \/ y.k = "nan" THEN FALSE
    ELSE IF x.k = "ninf" THEN y.k # "ninf"
    ELSE IF x.k = "inf" THEN FALSE
    ELSE IF y.k = "inf" THEN TRUE
    ELSE IF y.k = "ninf" THEN FALSE
    ELSE NumOf(x) * DenOf(y) < NumOf(y) * DenOf(x)

\* Math.min(x, y)
MathMin(x, y) ==
    IF x.k = "nan" \/ y.k = "nan" THEN NaN
    ELSE IF FracLess(x, y) THEN x ELSE y

-----------------------------------------------------------------------------
(* Strings and the conversions between strings and numbers.                *)

DigitChars == <<"0", "1", "2", "3", "4", "5", "6", "7", "8", "9">>

DigitSet == { DigitChars[i] : i \in 1..Len(DigitChars) }

DigitValues ==
    [c \in DigitSet |-> (CHOOSE i \in 1..Len(DigitChars) : DigitChars[i] = c) - 1]

IsDigit(c) == c \in DigitSet

DigitVal(c) == DigitValues[c]

InfinityChars == <<"I", "n", "f", "i", "n", "i", "t", "y">>

\* s starts with p
StartsWith(s, p) == Len(s) >= Len(p) /\ SubSeq(s, 1, Len(p)) = p

RECURSIVE SkipSpaces(_)
SkipSpaces(s) == IF s # <<>> /\ Head(s) = " " THEN SkipSpaces(Tail(s)) ELSE s

RECURSIVE DropTrailingSpaces(_)
DropTrailingSpaces(s) ==
    IF s # <<>> /\ s[Len(s)] = " "
    THEN DropTrailingSpaces(SubSeq(s, 1, Len(s) - 1)) ELSE s

\* the longest prefix of s that consists of digits
RECURSIVE DigitPrefix(_)
DigitPrefix(s) ==
    IF s # <<>> /\ IsDigit(Head(s)) THEN <<Head(s)>> \o DigitPrefix(Tail(s))
    ELSE <<>>

\* the value of a sequence of digits
RECURSIVE DigitsValue(_)
DigitsValue(ds) ==
    IF ds = <<>> THEN 0
    ELSE 10 * DigitsValue(SubSeq(ds, 1, Len(ds) - 1)) + DigitVal(ds[Len(ds)])

\* the decimal digits of n >= 0
RECURSIVE DigitsOf(_)
DigitsOf(n) ==
    IF n < 10 THEN <<DigitChars[n + 1]>>
    ELSE DigitsOf(n \div 10) \o <<DigitChars[(n % 10) + 1]>>

\* n >= 0 as decimal digits, zero-padded on the left to width w
RECURSIVE Pad(_, _)
Pad(n, w) ==
    IF w <= 1 THEN DigitsOf(n)
    ELSE IF Len(DigitsOf(n)) >= w THEN DigitsOf(n)
    ELSE <<"0">> \o Pad(n, w - 1)

\* parseFloat(s): the number the longest numeric prefix of s denotes (leading
\* white space and a sign allowed), NaN when there is no such prefix.
ParseFloat(s) ==
    LET t == SkipSpaces(s)
        neg == t # <<>> /\ Head(t) = "-"
        u == IF t # <<>> /\ Head(t) \in {"-", "+"} THEN Tail(t) ELSE t
        ds == DigitPrefix(u)
    IN IF StartsWith(u, InfinityChars) THEN (IF neg THEN NegInf ELSE PosInf)
       ELSE IF ds = <<>> THEN NaN
       ELSE Num(IF neg THEN 0 - DigitsValue(ds) ELSE DigitsValue(ds))

\* Number(s) on a string (StringToNumber): the whole trimmed string must be a
\* numeric literal; the empty string is 0.
StringToNumber(s) ==
    LET t == DropTrailingSpaces(SkipSpaces(s))
        neg == t # <<>> /\ Head(t) = "-"
        u == IF t # <<>> /\ Head(t) \in {"-", "+"} THEN Tail(t) ELSE t
    IN IF t = <<>> THEN Num(0)
       ELSE IF u = InfinityChars THEN (IF neg THEN NegInf ELSE PosInf)
       ELSE IF u # <<>> /\ DigitPrefix(u) = u
            THEN Num(IF neg THEN 0 - DigitsValue(u) ELSE DigitsValue(u))
       ELSE NaN

\* Number(x)
ToNumber(x) ==
    CASE x.k = "str" -> StringToNumber(x.v)
      [] x.k = "null" -> Num(0)
      [] x.k = "undef" -> NaN
      [] OTHER -> x

\* String(x) on a number
NumberToString(x) ==
    CASE x.k = "inf" -> InfinityChars
      [] x.k = "ninf" -> <<"-">> \o InfinityChars
      [] x.k = "nan" -> <<"N", "a", "N">>
      [] OTHER -> IF x.v < 0 THEN <<"-">> \o DigitsOf(0 - x.v) ELSE DigitsOf(x.v)

\* truthiness of a value (the operand of ||, ?: and if)
Truthy(x) ==
    CASE x.k = "num" -> x.v # 0
      [] x.k \in {"nan", "null", "undef"} -> FALSE
      [] x.k = "str" -> x.v # <<>>
      [] OTHER -> TRUE

-----------------------------------------------------------------------------
(* Dates: ECMAScript time values and the Date methods the code calls.       *)

MsPerMinute == 60 * 1000
MsPerHour == 60 * MsPerMinute
MsPerDay == 24 * MsPerHour

Time(d, m) == [day |-> d, ms |-> m]

\* the time value of an invalid Date
NaNTime == [day |-> 0, ms |-> 0 - 1]

IsValidTime(t) == t.ms >= 0

\* t + d milliseconds, |d| below 2^31
TimeAdd(t, d) ==
    Time(t.day + ((t.ms + d) \div MsPerDay), (t.ms + d) % MsPerDay)

InLeapYear(y) == (y % 4 = 0 /\ y % 100 # 0) \/ y % 400 = 0

\* DayFromYear(y): the day number of 1 January of y
DayFromYear(y) ==
    365 * (y - 1970) + ((y - 1969) \div 4) - ((y - 1901) \div 100)
        + ((y - 1601) \div 400)

\* YearFromTime on a day number d >= 0
YearFromDay(d) ==
    CHOOSE y \in (1970 + (d \div 366))..(1970 + (d \div 365) + 1) :
        DayFromYear(y) <= d /\ d < DayFromYear(y + 1)

\* days of a common year before month m + 1 (0 = January)
CumulativeDays == <<0, 31, 59, 90, 120, 151, 181, 212, 243, 273, 304, 334, 365>>

\* days of the year before month m (0 = January)
DaysBeforeMonth(m, leap) ==
    CumulativeDays[m + 1] + (IF leap /\ m >= 2 THEN 1 ELSE 0)

\* MonthFromTime on a day number (0 = January)
MonthFromDay(d) ==
    LET y == YearFromDay(d)
        w == d - DayFromYear(y)
    IN CHOOSE m \in 0..11 :
        /\ DaysBeforeMonth(m, InLeapYear(y)) <= w
        /\ w < DaysBeforeMonth(m + 1, InLeapYear(y))

\* DateFromTime on a day number (1..31)
DateFromDay(d) ==
    LET y == YearFromDay(d)
    IN d - DayFromYear(y) - DaysBeforeMonth(MonthFromDay(d), InLeapYear(y)) + 1

\* WeekDay on a day number (0 = Sunday; 1 January 1970 was a Thursday)
WeekDay(d) == (d + 4) % 7

\* MakeDay(year, month, date): month and date outside their ranges carry over
MakeDay(year, month, date) ==
    LET ym == year + (month \div 12)
        mn == month % 12
    IN DayFromYear(ym) + DaysBeforeMonth(mn, InLeapYear(ym)) + date - 1

\* LocalTime(t) and UTC(t) for the device's fixed offset of off minutes
LocalTime(t, off) == TimeAdd(t, off * MsPerMinute)
UTCTime(t, off) == TimeAdd(t, 0 - (off * MsPerMinute))

\* new Date(year, month, date): local midnight of that day
NewDate(year, month, date, off) ==
    UTCTime(Time(MakeDay(year, month, date), 0), off)

\* Date.prototype.getFullYear / getMonth / getDate / getDay: local fields
GetFullYear(t, off) == YearFromDay(LocalTime(t, off).day)
GetMonth(t, off) == MonthFromDay(LocalTime(t, off).day)
GetDate(t, off) == DateFromDay(LocalTime(t, off).day)
GetDay(t, off) == WeekDay(LocalTime(t, off).day)

\* Date.prototype.toISOString: YYYY-MM-DDTHH:mm:ss.sssZ of the UTC fields;
\* throws a RangeError on an invalid Date
RangeError == <<"RangeError">>

\* the i-th decimal digit from the right (i = 0 for the units) of n >= 0
DigitAt(n, p) == DigitChars[((n \div p) % 10) + 1]

ToISOString(t) ==
    IF ~IsValidTime(t) THEN RangeError
    ELSE LET y == YearFromDay(t.day)
             w == t.day - DayFromYear(y)
             m == CHOOSE k \in 0..11 :
                    /\ DaysBeforeMonth(k, InLeapYear(y)) <= w
                    /\ w < DaysBeforeMonth(k + 1, InLeapYear(y))
             mo == m + 1
             d == w - DaysBeforeMonth(m, InLeapYear(y)) + 1
             h == t.ms \div MsPerHour
             mi == (t.ms % MsPerHour) \div MsPerMinute
             sec == (t.ms % MsPerMinute) \div 1000
             milli == t.ms % 1000
         IN << DigitAt(y, 1000), DigitAt(y, 100), DigitAt(y, 10), DigitAt(y, 1),
               "-", DigitAt(mo, 10), DigitAt(mo, 1),
               "-", DigitAt(d, 10), DigitAt(d, 1),
               "T", DigitAt(h, 10), DigitAt(h, 1),
               ":", DigitAt(mi, 10), DigitAt(mi, 1),
               ":", DigitAt(sec, 10), DigitAt(sec, 1),
               ".", DigitAt(milli, 100), DigitAt(milli, 10), DigitAt(milli, 1),
               "Z" >>

\* String.prototype.slice(0, n)
Slice0(s, n) == SubSeq(s, 1, IF Len(s) < n THEN Len(s) ELSE n)

\* the positions of the digits of YYYY-MM-DDTHH:mm:ss.sssZ
IsoDigitPositions == {1, 2, 3, 4, 6, 7, 9, 10, 12, 13, 15, 16, 18, 19, 21, 22, 23}

\* the number written by the two digits of s at i and i + 1
TwoDigits(s, i) == 10 * DigitVal(s[i]) + DigitVal(s[i + 1])

\* new Date(s) on a string: the time value of the ISO format
\* YYYY-MM-DDTHH:mm:ss.sssZ, and an invalid Date for any other string
DateParse(s) ==
    IF /\ Len(s) = 24
       /\ s[5] = "-" /\ s[8] = "-" /\ s[11] = "T" /\ s[14] = ":"
       /\ s[17] = ":" /\ s[20] = "." /\ s[24] = "Z"
       /\ \A i \in IsoDigitPositions : IsDigit(s[i])
    THEN LET y == 100 * TwoDigits(s, 1) + TwoDigits(s, 3)
             mo == TwoDigits(s, 6)
             d == TwoDigits(s, 9)
             h == TwoDigits(s, 12)
             mi == TwoDigits(s, 15)
             sec == TwoDigits(s, 18)
             milli == 10 * TwoDigits(s, 21) + DigitVal(s[23])
         IN IF /\ y >= 1970 /\ mo \in 1..12 /\ d \in 1..31
               /\ h \in 0..23 /\ mi \in 0..59 /\ sec \in 0..59
            THEN Time(MakeDay(y, mo - 1, d),
                      h * MsPerHour + mi * MsPerMinute + sec * 1000 + milli)
            ELSE NaNTime
    ELSE NaNTime

\* Date.now().toString(): the decimal digits of day * MsPerDay + ms, computed
\* in two parts of which each fits an integer of the model
DateNowString(t) ==
    LET low == 100000
        high == (t.day * (MsPerDay \div low)) + (t.ms \div low)
    IN DigitsOf(high) \o Pad(t.ms % low, 5)

-----------------------------------------------------------------------------
(* The App component: state, derived values and handlers.                  *)

TIMES == <<"Morning", "Afternoon", "Evening", "Night">>

\* Texts the user types into the ounces field.
InputStrings == { <<"a", "b", "c">>, <<"8">>, InfinityChars }

\* Time-of-day buttons the user presses.
PressedTimes == {TIMES[3]}

\* The device's UTC offset, in minutes east of UTC: of a session, and of the
\* functions applied to arguments.
Offsets == {0, 120}
AllOffsets == {0 - 300, 0, 120}

\* The clock at start: 2024-02-29T21:00:00.000Z, the step of the clock and
\* the instants the clock shows during a session.
StartTime == Time(MakeDay(2024, 1, 29), 21 * MsPerHour)
TickMs == 3 * MsPerHour
ClockInstants == { StartTime, TimeAdd(StartTime, TickMs) }

\* the Date of an unmounted CalendarScreen
NoDate == [day |-> 0 - 1, ms |-> 0 - 1]

\* totalOunces without the Number.isFinite test
RECURSIVE totalOuncesUnchecked(_)
totalOuncesUnchecked(es) ==
    IF es = <<>> THEN Num(0)
    ELSE JSAdd(totalOuncesUnchecked(SubSeq(es, 1, Len(es) - 1)),
               ToNumber(es[Len(es)].ounces))

\* totalOunces: the sum over the whole log of the volumes that are finite
RECURSIVE totalOunces(_)
totalOunces(es) ==
    IF es = <<>> THEN Num(0)
    ELSE LET e == es[Len(es)]
             val == ToNumber(e.ounces)
         IN JSAdd(totalOunces(SubSeq(es, 1, Len(es) - 1)),
                  IF NumberIsFinite(val) THEN val ELSE Num(0))

\* remainingToGoal without Math.max
remainingToGoalUnclamped(goal, total) ==
    IF goal # JSNull THEN JSSub(goal, total) ELSE JSNull

\* remainingToGoal
remainingToGoal(goal, total) ==
    IF goal # JSNull THEN MathMax(JSSub(goal, total), Num(0)) ELSE JSNull

\* the key of an entry in totalsByDate: new Date(createdAt).toISOString().slice(0, 10)
EntryKey(e) == Slice0(ToISOString(DateParse(e.createdAt)), 10)

\* acc[iso] || 0
AccOrZero(acc, iso) ==
    IF iso \in DOMAIN acc /\ Truthy(acc[iso]) THEN acc[iso] ELSE Num(0)

\* Number(e.ounces || 0)
OuncesOrZero(e) == ToNumber(IF Truthy(e.ounces) THEN e.ounces ELSE Num(0))

\* a reduce step that assigns the volume instead of accumulating it
AddToDateOverwrite(acc, e) == (EntryKey(e) :> OuncesOrZero(e)) @@ acc

\* one step of the reduce of totalsByDate
AddToDate(acc, e) ==
    LET iso == EntryKey(e)
        sum == JSAdd(AccOrZero(acc, iso), OuncesOrZero(e))
    IN (iso :> sum) @@ acc

\* a reduce seeded with a zero total for the day the app was started
RECURSIVE totalsByDateSeeded(_)
totalsByDateSeeded(es) ==
    IF es = <<>> THEN (Slice0(ToISOString(StartTime), 10) :> Num(0)) @@ <<>>
    ELSE AddToDate(totalsByDateSeeded(SubSeq(es, 1, Len(es) - 1)), es[Len(es)])

\* totalsByDate: entries.reduce(..., {}), from the first entry to the last
RECURSIVE totalsByDate(_)
totalsByDate(es) ==
    IF es = <<>> THEN <<>>
    ELSE AddToDate(totalsByDate(SubSeq(es, 1, Len(es) - 1)), es[Len(es)])

\* the evaluation of totalsByDate on a list: toISOString throws a RangeError
\* at the first entry whose createdAt is not a date, which leaves the reduce;
\* otherwise the map is returned
totalsByDateCall(es) ==
    IF \E i \in 1..Len(es) : ToISOString(DateParse(es[i].createdAt)) = RangeError
    THEN [threw |-> TRUE, v |-> RangeError]
    ELSE [threw |-> FALSE, v |-> totalsByDate(es)]

\* totalsByDate[iso] || 0
TotalAt(totals, iso) == AccOrZero(totals, iso)

\* a validation with x < 0 in place of x <= 0
RejectedBelowZero(x) == NumberIsNaN(x) \/ JSLess(x, Num(0))

\* the validation of addEntry and saveGoal: Number.isNaN(x) || x <= 0
Rejected(x) == NumberIsNaN(x) \/ JSLessEq(x, Num(0))

\* a map that updates every entry, whatever its id
UpdateEntriesAll(es, id, oz, tod) ==
    [i \in 1..Len(es) |-> [es[i] EXCEPT !.ounces = oz, !.timeOfDay = tod]]

\* a map that adds the entry when no entry has the id
UpdateEntriesOrAdd(es, id, oz, tod) ==
    IF \E i \in 1..Len(es) : es[i].id = id
    THEN [i \in 1..Len(es) |->
            IF es[i].id = id THEN [es[i] EXCEPT !.ounces = oz, !.timeOfDay = tod]
            ELSE es[i]]
    ELSE <<[id |-> id, ounces |-> oz, timeOfDay |-> tod, createdAt |-> <<>>]>> \o es

\* prev.map(e => (e.id === editingId ? { ...e, ounces: oz, timeOfDay } : e))
UpdateEntries(es, id, oz, tod) ==
    [i \in 1..Len(es) |->
        IF es[i].id = id THEN [es[i] EXCEPT !.ounces = oz, !.timeOfDay = tod]
        ELSE es[i]]

\* an entry that takes the first time of day, whatever button is selected
NewEntryFirstTime(oz, tod, t) ==
    [id |-> Str(DateNowString(t)), ounces |-> oz, timeOfDay |-> TIMES[1],
     createdAt |-> ToISOString(t)]

\* the entry addEntry creates
NewEntry(oz, tod, t) ==
    [id |-> Str(DateNowString(t)), ounces |-> oz, timeOfDay |-> tod,
     createdAt |-> ToISOString(t)]

\* a filter that drops the newest entry when no entry has the id
RemoveIdOrNewest(es, id) ==
    IF \E i \in 1..Len(es) : es[i].id = id
    THEN SelectSeq(es, LAMBDA e : e.id # id)
    ELSE IF es = <<>> THEN <<>> ELSE Tail(es)

\* prev.filter(e => e.id !== id)
RECURSIVE RemoveId(_, _)
RemoveId(es, id) ==
    IF es = <<>> THEN <<>>
    ELSE IF Head(es).id # id THEN <<Head(es)>> \o RemoveId(Tail(es), id)
    ELSE RemoveId(Tail(es), id)

\* the blanks of a grid whose week starts on Monday
GridBlanksMondayFirst(n) == [i \in 1..((n + 6) % 7) |-> JSNull]

\* getMonthGrid(date).grid: startWeekday nulls, then one cell per day
GridBlanks(n) == [i \in 1..n |-> JSNull]

GridCell(year, month, d, off) ==
    LET cur == NewDate(year, month, d, off)
    IN [day |-> d, date |-> cur, iso |-> Slice0(ToISOString(cur), 10)]

getMonthGrid(date, off) ==
    LET year == GetFullYear(date, off)
        month == GetMonth(date, off)
        start == NewDate(year, month, 1, off)
        end == NewDate(year, month + 1, 0, off)
        daysInMonth == GetDate(end, off)
        startWeekday == GetDay(start, off)
    IN GridBlanks(startWeekday)
       \o [d \in 1..daysInMonth |-> GridCell(year, month, d, off)]

\* grid.filter(Boolean): the cells of the grid that are not placeholders
RealCells(grid) == SelectSeq(grid, LAMBDA c : c # JSNull)

\* monthTotals: grid.filter(Boolean).map(d => totalsByDate[d.iso] || 0)
monthTotals(grid, totals) ==
    LET cells == RealCells(grid)
    IN [i \in 1..Len(cells) |-> TotalAt(totals, cells[i].iso)]

\* Math.max(...xs): -Infinity on no argument
RECURSIVE MathMaxOf(_)
MathMaxOf(xs) ==
    IF xs = <<>> THEN NegInf
    ELSE MathMax(MathMaxOf(SubSeq(xs, 1, Len(xs) - 1)), xs[Len(xs)])

\* maxInMonth: monthTotals.length ? Math.max(...monthTotals) : 0
maxInMonth(grid, totals) ==
    LET mt == monthTotals(grid, totals)
    IN IF Len(mt) # 0 THEN MathMaxOf(mt) ELSE Num(0)

\* the branch of percent taken when no positive goal is set
percentOfMax(total, max) ==
    IF JSLess(Num(0), max) THEN MathMin(JSDiv(total, max), Num(1)) ELSE Num(0)

\* a fill fraction that ignores the goal
percentMaxBasis(total, goal, max) == percentOfMax(total, max)

\* percent: the fill fraction of a cell of day total `total`
percent(total, goal, max) ==
    IF goal # JSNull /\ JSLess(Num(0), goal)
    THEN MathMin(JSDiv(total, goal), Num(1))
    ELSE percentOfMax(total, max)

\* the fill fractions of the real cells of the grid, in day order
percents(grid, totals, goal) ==
    LET cells == RealCells(grid)
        max == maxInMonth(grid, totals)
    IN [i \in 1..Len(cells) |-> percent(TotalAt(totals, cells[i].iso), goal, max)]

\* daysInMonth of the progress summary: grid.filter(Boolean).length
daysInMonth(grid) == Len(RealCells(grid))

\* a reduce step that counts the days above the goal only
ReachedStepStrict(acc, cell, totals, goal) ==
    acc + (IF JSLess(goal, TotalAt(totals, cell.iso)) THEN 1 ELSE 0)

\* one step of the reduce of daysReached
ReachedStep(acc, cell, totals, goal) ==
    acc + (IF JSLessEq(goal, TotalAt(totals, cell.iso)) THEN 1 ELSE 0)

RECURSIVE ReachedFold(_, _, _)
ReachedFold(cells, totals, goal) ==
    IF cells = <<>> THEN 0
    ELSE ReachedStep(ReachedFold(SubSeq(cells, 1, Len(cells) - 1), totals, goal),
                     cells[Len(cells)], totals, goal)

\* daysReached: the days of the grid whose total has reached the goal, 0
\* when no goal is set
daysReached(grid, totals, goal) ==
    IF goal # JSNull THEN ReachedFold(RealCells(grid), totals, goal) ELSE 0

\* the progress summary under the grid
progressText(grid, totals, goal) ==
    IF goal # JSNull
    THEN [text |-> "reached", reached |-> daysReached(grid, totals, goal),
          days |-> daysInMonth(grid)]
    ELSE [text |-> "No goal set"]

\* a prevMonth that keeps the day of the month
prevMonthKeepDay(d, off) ==
    NewDate(GetFullYear(d, off), GetMonth(d, off) - 1, GetDate(d, off), off)

\* a nextMonth that advances by two months
nextMonthByTwo(d, off) == NewDate(GetFullYear(d, off), GetMonth(d, off) + 2, 1, off)

\* the updaters of prevMonth and nextMonth
prevMonth(d, off) == NewDate(GetFullYear(d, off), GetMonth(d, off) - 1, 1, off)
nextMonth(d, off) == NewDate(GetFullYear(d, off), GetMonth(d, off) + 1, 1, off)

\* The home screen's buttons are pressable when the home screen is rendered and
\* neither Modal covers it.
HomeIdle == currentScreen = "home" /\ ~modalVisible /\ ~goalModalVisible

formVars == <<ounces, timeOfDay, editingId, modalVisible>>
goalVars == <<goalOunces, goalModalVisible, goalInput>>
calVars == <<currentScreen, calendarDate>>
envVars == <<now, tz, call, ret>>

\* the clock advances, and a goal is dropped when the UTC day changes
TickResetsGoal ==
    /\ TimeAdd(now, TickMs) \in ClockInstants
    /\ now' = TimeAdd(now, TickMs)
    /\ goalOunces' = (IF TimeAdd(now, TickMs).day # now.day THEN JSNull
                      ELSE goalOunces)
    /\ UNCHANGED <<entries, formVars, goalModalVisible, goalInput, calVars,
                   pendingDelete, alert, tz, call, ret>>

\* the clock advances
Tick ==
    /\ TimeAdd(now, TickMs) \in ClockInstants
    /\ now' = TimeAdd(now, TickMs)
    /\ UNCHANGED <<entries, formVars, goalVars, calVars, pendingDelete, alert,
                   tz, call, ret>>

\* openAddModal() from the "Add Water Intake" button
OpenAddModal ==
    /\ HomeIdle
    /\ ounces' = <<>>
    /\ timeOfDay' = TIMES[1]
    /\ editingId' = JSNull
    /\ modalVisible' = TRUE
    /\ alert' = "none"
    /\ UNCHANGED <<entries, goalVars, calVars, pendingDelete, envVars>>

\* openAddModal(item) from the Edit button of the i-th entry
OpenEditModal(i) ==
    /\ HomeIdle
    /\ i \in 1..Len(entries)
    /\ IF entries[i].ounces # JSNull /\ entries[i].ounces # JSUndef
       THEN /\ ounces' = NumberToString(entries[i].ounces)
            /\ timeOfDay' = entries[i].timeOfDay
            /\ editingId' = entries[i].id
       ELSE /\ ounces' = <<>>
            /\ timeOfDay' = TIMES[1]
            /\ editingId' = JSNull
    /\ modalVisible' = TRUE
    /\ alert' = "none"
    /\ UNCHANGED <<entries, goalVars, calVars, pendingDelete, envVars>>

\* onChangeText={setOunces}
SetOunces(s) ==
    /\ currentScreen = "home" /\ modalVisible
    /\ ounces' = s
    /\ alert' = "none"
    /\ UNCHANGED <<entries, timeOfDay, editingId, modalVisible, goalVars,
                   calVars, pendingDelete, envVars>>

\* onPress={() => setTimeOfDay(t)}
SetTimeOfDay(t) ==
    /\ currentScreen = "home" /\ modalVisible
    /\ timeOfDay' = t
    /\ alert' = "none"
    /\ UNCHANGED <<entries, ounces, editingId, modalVisible, goalVars,
                   calVars, pendingDelete, envVars>>

\* the modal's Cancel button and onRequestClose
CancelModal ==
    /\ currentScreen = "home" /\ modalVisible
    /\ modalVisible' = FALSE
    /\ alert' = "none"
    /\ UNCHANGED <<entries, ounces, timeOfDay, editingId, goalVars, calVars,
                   pendingDelete, envVars>>

\* addEntry: the modal's Add / Save button, on a log that holds fewer than
\* cap entries when it adds one
AddEntryUpTo(cap) ==
    /\ currentScreen = "home" /\ modalVisible
    /\ LET oz == ParseFloat(ounces)
       IN IF Rejected(oz)
          THEN /\ alert' = "Invalid input"
               /\ UNCHANGED <<entries, editingId, modalVisible>>
          ELSE /\ alert' = "none"
               /\ modalVisible' = FALSE
               /\ IF Truthy(editingId)
                  THEN /\ entries' = UpdateEntries(entries, editingId, oz, timeOfDay)
                       /\ editingId' = JSNull
                  ELSE /\ Len(entries) < cap
                       /\ entries' = <<NewEntry(oz, timeOfDay, now)>> \o entries
                       /\ UNCHANGED editingId
    /\ UNCHANGED <<ounces, timeOfDay, goalVars, calVars, pendingDelete, envVars>>

\* addEntry in a session whose log is kept to MaxEntries entries
AddEntry == AddEntryUpTo(MaxEntries)

\* a Delete button that removes the entry at once and then asks
ConfirmDeleteAtOnce(i) ==
    /\ HomeIdle
    /\ i \in 1..Len(entries)
    /\ Cardinality(pendingDelete) < MaxPending
    /\ pendingDelete' = pendingDelete \cup {entries[i].id}
    /\ entries' = RemoveId(entries, entries[i].id)
    /\ alert' = "Delete entry"
    /\ UNCHANGED <<formVars, goalVars, calVars, envVars>>

\* confirmDelete(item.id) from the Delete button of the i-th entry: the
\* confirmation is shown, nothing is deleted yet
ConfirmDelete(i) ==
    /\ HomeIdle
    /\ i \in 1..Len(entries)
    /\ Cardinality(pendingDelete) < MaxPending
    /\ pendingDelete' = pendingDelete \cup {entries[i].id}
    /\ alert' = "Delete entry"
    /\ UNCHANGED <<entries, formVars, goalVars, calVars, envVars>>

\* the confirmation's Cancel button
AlertCancel(id) ==
    /\ id \in pendingDelete
    /\ pendingDelete' = pendingDelete \ {id}
    /\ alert' = "none"
    /\ UNCHANGED <<entries, formVars, goalVars, calVars, envVars>>

\* the confirmation's Delete button
AlertDelete(id) ==
    /\ id \in pendingDelete
    /\ entries' = RemoveId(entries, id)
    /\ pendingDelete' = pendingDelete \ {id}
    /\ alert' = "none"
    /\ UNCHANGED <<formVars, goalVars, calVars, envVars>>

\* openGoalModal: the goal button of the header
OpenGoalModal ==
    /\ HomeIdle
    /\ goalInput' = (IF goalOunces # JSNull THEN NumberToString(goalOunces)
                     ELSE <<>>)
    /\ goalModalVisible' = TRUE
    /\ alert' = "none"
    /\ UNCHANGED <<entries, formVars, goalOunces, calVars, pendingDelete, envVars>>

\* onChangeText={setGoalInput}
SetGoalInput(s) ==
    /\ currentScreen = "home" /\ goalModalVisible
    /\ goalInput' = s
    /\ alert' = "none"
    /\ UNCHANGED <<entries, formVars, goalOunces, goalModalVisible, calVars,
                   pendingDelete, envVars>>

\* the goal modal's Cancel button and onRequestClose
CancelGoalModal ==
    /\ currentScreen = "home" /\ goalModalVisible
    /\ goalModalVisible' = FALSE
    /\ alert' = "none"
    /\ UNCHANGED <<entries, formVars, goalOunces, goalInput, calVars,
                   pendingDelete, envVars>>

\* saveGoal: the goal modal's Save button
SaveGoal ==
    /\ currentScreen = "home" /\ goalModalVisible
    /\ LET g == ParseFloat(goalInput)
       IN IF Rejected(g)
          THEN /\ alert' = "Invalid goal"
               /\ UNCHANGED <<goalOunces, goalModalVisible>>
          ELSE /\ alert' = "none"
               /\ goalOunces' = g
               /\ goalModalVisible' = FALSE
    /\ UNCHANGED <<entries, formVars, goalInput, calVars, pendingDelete, envVars>>

\* a calendar that opens on the month in which the app was started
ViewCalendarAtStart ==
    /\ HomeIdle
    /\ currentScreen' = "calendar"
    /\ calendarDate' = StartTime
    /\ alert' = "none"
    /\ UNCHANGED <<entries, formVars, goalVars, pendingDelete, envVars>>

\* "View Calendar": the CalendarScreen mounts with useState(new Date())
ViewCalendar ==
    /\ HomeIdle
    /\ currentScreen' = "calendar"
    /\ calendarDate' = now
    /\ alert' = "none"
    /\ UNCHANGED <<entries, formVars, goalVars, pendingDelete, envVars>>

\* onBack: the CalendarScreen unmounts and its state is dropped
Back ==
    /\ currentScreen = "calendar"
    /\ currentScreen' = "home"
    /\ calendarDate' = NoDate
    /\ alert' = "none"
    /\ UNCHANGED <<entries, formVars, goalVars, pendingDelete, envVars>>

\* months between the month of date d and the month of the clock
MonthsAway(d) ==
    Abs((12 * GetFullYear(d, tz) + GetMonth(d, tz))
          - (12 * GetFullYear(now, tz) + GetMonth(now, tz)))

\* the button of prevMonth
PrevMonth ==
    /\ currentScreen = "calendar"
    /\ calendarDate' = prevMonth(calendarDate, tz)
    /\ MonthsAway(calendarDate') <= MaxNav
    /\ alert' = "none"
    /\ UNCHANGED <<entries, formVars, goalVars, currentScreen, pendingDelete,
                   envVars>>

\* the button of nextMonth
NextMonth ==
    /\ currentScreen = "calendar"
    /\ calendarDate' = nextMonth(calendarDate, tz)
    /\ MonthsAway(calendarDate') <= MaxNav
    /\ alert' = "none"
    /\ UNCHANGED <<entries, formVars, goalVars, currentScreen, pendingDelete,
                   envVars>>

\* onPressDay(cell.iso) on a real cell of the grid: an Alert shows the day's
\* total
PressDay ==
    /\ currentScreen = "calendar"
    /\ RealCells(getMonthGrid(calendarDate, tz)) # <<>>
    /\ alert' = "Day total"
    /\ UNCHANGED <<entries, formVars, goalVars, calVars, pendingDelete, envVars>>

NoCall == [f |-> "none", x |-> 0]
Pending == [done |-> FALSE, v |-> 0]
Done(v) == [done |-> TRUE, v |-> v]

\* the App after its first render (the useState initial values)
InitApp ==
    /\ entries = <<>>
    /\ modalVisible = FALSE
    /\ ounces = <<>>
    /\ timeOfDay = TIMES[1]
    /\ editingId = JSNull
    /\ goalOunces = JSNull
    /\ goalModalVisible = FALSE
    /\ goalInput = <<>>
    /\ currentScreen = "home"
    /\ calendarDate = NoDate
    /\ pendingDelete = {}
    /\ alert = "none"
    /\ now = StartTime

Init ==
    /\ InitApp
    /\ tz \in Offsets
    /\ call = NoCall
    /\ ret = Pending

Next ==
    \/ Tick
    \/ OpenAddModal
    \/ \E i \in 1..MaxEntries : OpenEditModal(i)
    \/ \E s \in InputStrings : SetOunces(s)
    \/ \E t \in PressedTimes : SetTimeOfDay(t)
    \/ CancelModal
    \/ AddEntry
    \/ \E i \in 1..MaxEntries : ConfirmDelete(i)
    \/ \E id \in pendingDelete : AlertCancel(id)
    \/ \E id \in pendingDelete : AlertDelete(id)

Spec == Init /\ [][Next]_vars

-----------------------------------------------------------------------------
(* The derived values as functions of their arguments: the arguments are   *)
(* drawn in the initial state and one step applies the function.           *)

MaxList == 3         \* length of an argument list of entries

\* Volume fields of a corrupted entry.
CorruptVolumes ==
    { Num(8), Num(6), Num(0), Num(0 - 3), NaN, PosInf, NegInf,
      Str(<<"a", "b", "c">>), Str(<<"8">>), JSNull, JSUndef }

\* the i-th entry of an argument list: created at StartTime + i ms
ArgEntry(oz, i) == NewEntry(oz, TIMES[1], TimeAdd(StartTime, i))

\* the lists of up to max entries handed to totalOunces
ArgLists(max) ==
    UNION { { [i \in 1..n |-> ArgEntry(f[i], i)] : f \in [1..n -> CorruptVolumes] }
            : n \in 0..max }

\* Totals and goals handed to remainingToGoal.
ArgTotals == { Num(0 - 3), Num(0), Num(6), Num(10), Num(14), Num(20), Num(25) }
ArgGoals == { JSNull, Num(1), Num(10), Num(14), Num(20), Num(64), PosInf }

\* Instants around the end of 29 February 2024 (UTC).
ArgTimes ==
    { TimeAdd(StartTime, d) :
        d \in { 0 - (18 * MsPerHour), 0 - (9 * MsPerHour), 0,
                (3 * MsPerHour) - 1, 3 * MsPerHour, 6 * MsPerHour,
                26 * MsPerHour } }

\* Displayed dates: the first and the 15th of every month of four years.
ArgYears == {2000, 2023, 2024, 2100}
ArgDates ==
    { [year |-> y, month |-> m, date |-> d] :
        y \in ArgYears, m \in 0..11, d \in {1, 15} }

MaxAgg == 2          \* length of an argument list handed to totalsByDate

\* createdAt fields of a corrupted entry: two dates, a text that is no date
\* and the empty text
ArgStamps ==
    { ToISOString(StartTime), ToISOString(TimeAdd(StartTime, TickMs)),
      <<"b", "a", "d">>, <<>> }
ArgAggVolumes == { Num(8), Num(6) }

\* the lists of up to max entries handed to totalsByDate
ArgAggLists(max) ==
    UNION { { [i \in 1..n |->
                 [ArgEntry(f[i][1], i) EXCEPT !.createdAt = f[i][2]]] :
              f \in [1..n -> ArgAggVolumes \X ArgStamps] }
            : n \in 0..max }

InitFn ==
    /\ InitApp
    /\ ret = Pending
    /\ \/ /\ tz = 0
          /\ call \in { [f |-> "totalOunces", x |-> es] : es \in ArgLists(MaxList) }
       \/ /\ tz = 0
          /\ call \in { [f |-> "remainingToGoal", x |-> [goal |-> g, total |-> t]] :
                          g \in ArgGoals, t \in ArgTotals }
       \/ /\ tz \in AllOffsets
          /\ call \in { [f |-> "dateKey", x |-> <<t1, t2>>] :
                          t1 \in ArgTimes, t2 \in ArgTimes }
       \/ /\ tz \in AllOffsets
          /\ call \in { [f |-> "getMonthGrid", x |-> d] : d \in ArgDates }
       \/ /\ tz = 0
          /\ call \in { [f |-> "totalsByDate", x |-> es] : es \in ArgAggLists(MaxAgg) }

ApplyTotalOunces ==
    /\ call.f = "totalOunces" /\ ~ret.done
    /\ ret' = Done(totalOunces(call.x))
    /\ UNCHANGED <<appVars, call>>

ApplyRemainingToGoal ==
    /\ call.f = "remainingToGoal" /\ ~ret.done
    /\ ret' = Done(remainingToGoal(call.x.goal, call.x.total))
    /\ UNCHANGED <<appVars, call>>

\* the keys of two entries created at the two instants
ApplyDateKey ==
    /\ call.f = "dateKey" /\ ~ret.done
    /\ ret' = Done(<<EntryKey(NewEntry(Num(8), TIMES[1], call.x[1])),
                     EntryKey(NewEntry(Num(8), TIMES[1], call.x[2]))>>)
    /\ UNCHANGED <<appVars, call>>

\* the grid of the month of a Date of the calendar screen
ApplyGetMonthGrid ==
    /\ call.f = "getMonthGrid" /\ ~ret.done
    /\ ret' = Done(getMonthGrid(
                    NewDate(call.x.year, call.x.month, call.x.date, tz), tz))
    /\ UNCHANGED <<appVars, call>>

ApplyTotalsByDate ==
    /\ call.f = "totalsByDate" /\ ~ret.done
    /\ ret' = Done(totalsByDateCall(call.x))
    /\ UNCHANGED <<appVars, call>>

NextFn ==
    \/ ApplyTotalsByDate
    \/ ApplyTotalOunces
    \/ ApplyRemainingToGoal
    \/ ApplyDateKey
    \/ ApplyGetMonthGrid

SpecFn == InitFn /\ [][NextFn]_vars

-----------------------------------------------------------------------------
(* The entry form submitted in a given state: the initial state is a state *)
(* of the App with the modal open, on a log of up to two entries (two of   *)
(* them may have been added in the same millisecond), in add mode, editing *)
(* one of them or editing an entry deleted since the form was opened, with *)
(* any text in the ounces field.                                           *)

\* Texts of the ounces field.
FormTexts ==
    { <<>>, <<" ">>, <<"a", "b", "c">>, <<"-", "3">>, <<"0">>, <<"-", "0">>,
      <<"N", "a", "N">>, <<"-">> \o InfinityChars, <<"8">>, <<"+", "8">>,
      <<" ", "8">>, <<"8", "o", "z">>, <<"1", "2">>, InfinityChars }

\* Logs the form is submitted on, newest entry first.
FormLogs ==
    { <<>>,
      <<NewEntry(Num(8), TIMES[1], StartTime)>>,
      <<NewEntry(Num(6), TIMES[3], TimeAdd(StartTime, TickMs)),
        NewEntry(Num(8), TIMES[1], StartTime)>>,
      <<NewEntry(Num(6), TIMES[3], StartTime),
        NewEntry(Num(8), TIMES[1], StartTime)>> }

\* An entry that was deleted while the form was open on it.
DeletedEntry == NewEntry(Num(8), TIMES[1], TimeAdd(StartTime, 0 - TickMs))

InitForm ==
    /\ entries \in FormLogs
    /\ modalVisible = TRUE
    /\ ounces \in FormTexts
    /\ timeOfDay \in {TIMES[1], TIMES[3]}
    /\ editingId \in {JSNull, DeletedEntry.id}
                        \cup { entries[i].id : i \in 1..Len(entries) }
    /\ goalOunces = JSNull
    /\ goalModalVisible = FALSE
    /\ goalInput = <<>>
    /\ currentScreen = "home"
    /\ calendarDate = NoDate
    /\ pendingDelete = {}
    /\ alert = "none"
    /\ now = TimeAdd(StartTime, TickMs + TickMs)
    /\ tz = 0
    /\ call = NoCall
    /\ ret = Pending

\* addEntry on one of the logs above: an entry can be added to each of them
SubmitForm == AddEntryUpTo(MaxEntries + 1)

NextForm == SubmitForm

SpecForm == InitForm /\ [][NextForm]_vars

-----------------------------------------------------------------------------
(* A delete confirmation answered in a given state: the initial state is a *)
(* state of the App with confirmations open, for entries of the log or for *)
(* an entry that another confirmation has deleted already.                 *)

\* the ids the open confirmations may have captured
CapturedIds(es) == { es[i].id : i \in 1..Len(es) } \cup {DeletedEntry.id}

InitDelete ==
    /\ entries \in FormLogs
    /\ pendingDelete \in { S \in SUBSET CapturedIds(entries) :
                             S # {} /\ Cardinality(S) <= MaxPending }
    /\ modalVisible \in BOOLEAN
    /\ ounces \in FormTexts
    /\ timeOfDay \in {TIMES[1], TIMES[3]}
    /\ editingId = JSNull
    /\ goalOunces = JSNull
    /\ goalModalVisible = FALSE
    /\ goalInput = <<>>
    /\ currentScreen = "home"
    /\ calendarDate = NoDate
    /\ alert = "Delete entry"
    /\ now = TimeAdd(StartTime, TickMs + TickMs)
    /\ tz = 0
    /\ call = NoCall
    /\ ret = Pending

NextDelete ==
    \/ \E id \in pendingDelete : AlertCancel(id)
    \/ \E id \in pendingDelete : AlertDelete(id)

SpecDelete == InitDelete /\ [][NextDelete]_vars

-----------------------------------------------------------------------------
(* The goal form, from the App's first render.                             *)

\* the steps of the goal form, the texts typed being those of T
GoalStep(T) ==
    \/ OpenGoalModal
    \/ \E s \in T : SetGoalInput(s)
    \/ CancelGoalModal
    \/ SaveGoal

NextGoal == GoalStep(FormTexts)

SpecGoal == Init /\ [][NextGoal]_vars

-----------------------------------------------------------------------------
(* The calendar screen over a given log and goal: the initial state is a   *)
(* state of the App on the home screen, the clock at one of several        *)
(* instants; the screen is opened, navigated and left.                     *)

\* an entry of oz ounces created on day d of February 2024 at hour h (UTC)
CalEntry(oz, d, h) == NewEntry(oz, TIMES[1], Time(MakeDay(2024, 1, d), h * MsPerHour))

\* Logs shown on the calendar, newest entry first.
CalLogs ==
    { <<>>,
      <<CalEntry(Num(8), 29, 21)>>,
      <<CalEntry(Num(5), 12, 12), CalEntry(Num(20), 11, 12), CalEntry(Num(10), 10, 12)>>,
      <<CalEntry(Num(6), 29, 12), CalEntry(Num(8), 29, 9), CalEntry(Num(64), 1, 12)>>,
      <<CalEntry(PosInf, 15, 12), CalEntry(Num(8), 14, 12)>> }

CalGoals == { JSNull, Num(10), Num(20), Num(64), PosInf }

\* The clock when the calendar is opened: the last days of months, the turn
\* of the year included.
CalStarts ==
    { StartTime,
      Time(MakeDay(2024, 0, 31), 12 * MsPerHour),
      Time(MakeDay(2024, 2, 30), 23 * MsPerHour),
      Time(MakeDay(2023, 11, 31), 2 * MsPerHour),
      Time(MakeDay(2024, 0, 1), 0) }

InitCal ==
    /\ entries \in CalLogs
    /\ goalOunces \in CalGoals
    /\ now \in CalStarts
    /\ tz \in AllOffsets
    /\ modalVisible = FALSE
    /\ ounces = <<>>
    /\ timeOfDay = TIMES[1]
    /\ editingId = JSNull
    /\ goalModalVisible = FALSE
    /\ goalInput = <<>>
    /\ currentScreen = "home"
    /\ calendarDate = NoDate
    /\ pendingDelete = {}
    /\ alert = "none"
    /\ call = NoCall
    /\ ret = Pending

NextCal ==
    \/ ViewCalendar
    \/ Back
    \/ PrevMonth
    \/ NextMonth
    \/ PressDay

SpecCal == InitCal /\ [][NextCal]_vars

-----------------------------------------------------------------------------
(* The whole App: the entry log, the goal form and the calendar screen.    *)

NextApp ==
    \/ Next
    \/ GoalStep(InputStrings)
    \/ NextCal

\* the App after its first render on a device at UTC
InitUTC == Init /\ tz = 0

SpecApp == InitUTC /\ [][NextApp]_vars

\* A session of the whole App in which the entry form is given the texts
\* "8" and "12" and the time of day is left alone: every handler of the
\* three screens, on fewer logs.
SessionTexts == { <<"8">>, <<"1", "2">> }

NextSession ==
    \/ Tick
    \/ OpenAddModal
    \/ \E i \in 1..MaxEntries : OpenEditModal(i)
    \/ \E s \in SessionTexts : SetOunces(s)
    \/ CancelModal
    \/ AddEntry
    \/ \E i \in 1..MaxEntries : ConfirmDelete(i)
    \/ \E id \in pendingDelete : AlertCancel(id)
    \/ \E id \in pendingDelete : AlertDelete(id)
    \/ GoalStep(InputStrings)
    \/ NextCal

SpecSession == InitUTC /\ [][NextSession]_vars

-----------------------------------------------------------------------------
(* Reference definitions used by the properties.                           *)

\* the sum of f[i] over the finite set S of indices
RECURSIVE SumOver(_, _)
SumOver(S, f) ==
    IF S = {} THEN 0
    ELSE LET i == CHOOSE j \in S : TRUE
         IN f[i] + SumOver(S \ {i}, f)

\* the permutations of 1..n, and a list reordered by one
Perms(n) == { p \in [1..n -> 1..n] : \A i, j \in 1..n : p[i] = p[j] => i = j }
Permute(es, p) == [i \in 1..Len(es) |-> es[p[i]]]

\* the volume of an entry as it reads as a number: its value when finite, else 0
FiniteOrZero(x) == IF ToNumber(x).k = "num" THEN ToNumber(x).v ELSE 0

\* the local calendar day (a day number) of an instant on this device
LocalDay(t) == LocalTime(t, tz).day

\* the indices of the entries created on the current local calendar day
TodaysEntries ==
    { i \in 1..Len(entries) :
        LocalDay(DateParse(entries[i].createdAt)) = LocalDay(now) }

\* the sum of the volumes (positive, possibly infinite) of the entries at S
VolumeSum(es, S) ==
    IF \E i \in S : es[i].ounces.k = "inf" THEN PosInf
    ELSE Num(SumOver(S, [i \in 1..Len(es) |-> es[i].ounces.v]))

\* yyyy-mm-dd of the UTC day of an instant
KeyOfInstant(t) == Slice0(ToISOString(t), 10)

\* the number of days of month m (0 = January) of year y, from the calendar
DaysInMonthRef(y, m) ==
    LET len == <<31, 28, 31, 30, 31, 30, 31, 31, 30, 31, 30, 31>>
        leap == (y % 4 = 0 /\ y % 100 # 0) \/ y % 400 = 0
    IN IF m = 1 /\ leap THEN 29 ELSE len[m + 1]

\* the weekday (0 = Sunday) of the first of month m of year y (Sakamoto)
StartWeekdayRef(y, m) ==
    LET t == <<0, 3, 2, 5, 0, 3, 5, 1, 4, 6, 2, 4>>
        yy == IF m < 2 THEN y - 1 ELSE y
    IN (yy + (yy \div 4) - (yy \div 100) + (yy \div 400) + t[m + 1] + 1) % 7

-----------------------------------------------------------------------------
(* Properties.                                                             *)

\* C1: the total shown as "Total today" is the sum of the volumes (read as
\* finite numbers) of exactly the entries created on the current local
\* calendar day.
C1_TotalIsTodaysSum ==
    totalOunces(entries) =
        Num(SumOver(TodaysEntries,
                    [i \in 1..Len(entries) |-> FiniteOrZero(entries[i].ounces)]))

\* C2: an entry created on local day D has the key of the cell of D in the
\* grid of D's month, and of no other cell of that grid.
C2_EntryInItsDayCell ==
    \A i \in 1..Len(entries) :
        LET t == DateParse(entries[i].createdAt)
            grid == getMonthGrid(t, tz)
        IN \A j \in 1..Len(grid) :
            grid[j] # JSNull =>
                ((grid[j].iso = EntryKey(entries[i]))
                    <=> (grid[j].day = GetDate(t, tz)))

\* C3: two instants have the same DateKey if and only if they fall on the
\* same local calendar day.
C3_DateKeyIsLocalDay ==
    (call.f = "dateKey" /\ ret.done) =>
        ((ret.v[1] = ret.v[2]) <=> (LocalDay(call.x[1]) = LocalDay(call.x[2])))

C5_IdsDistinct ==
    \A i, j \in 1..Len(entries) : entries[i].id = entries[j].id => i = j

\* Texts that do not parse to a number, or parse to a number <= 0.
InvalidTexts ==
    { <<>>, <<" ">>, <<"a", "b", "c">>, <<"-", "3">>, <<"0">>, <<"-", "0">>,
      <<"N", "a", "N">>, <<"-">> \o InfinityChars }

\* C6: submitting the entry form with a text that does not parse to a
\* positive number, in add mode or edit mode, raises the "Invalid input"
\* alert and leaves the entry log unchanged.
C6_InvalidInputRejected ==
    [][(AddEntry /\ ounces \in InvalidTexts)
          => (entries' = entries /\ alert' = "Invalid input")]_vars

\* C6 witness: a rejected save in edit mode
C6_Witness ==
    /\ alert = "Invalid input"
    /\ modalVisible
    /\ ounces = <<"-", "3">>
    /\ editingId # JSNull
    /\ \E i \in 1..Len(entries) : entries[i].id = editingId

\* C7: remainingToGoal is null exactly when the goal is unset; otherwise it is
\* never negative, 0 when total >= goal and goal - total when total < goal
\* (total 14: goal 20 gives 6, goal 10 gives 0).
C7_RemainingToGoal ==
    (call.f = "remainingToGoal" /\ ret.done) =>
        LET g == call.x.goal
            t == call.x.total
            r == ret.v
        IN /\ (r = JSNull) <=> (g = JSNull)
           /\ g # JSNull =>
                /\ JSLessEq(Num(0), r)
                /\ JSLessEq(g, t) => r = Num(0)
                /\ JSLess(t, g) =>
                     r = (IF g.k = "num" THEN Num(g.v - t.v) ELSE PosInf)
           /\ (t = Num(14) /\ g = Num(20)) => r = Num(6)
           /\ (t = Num(14) /\ g = Num(10)) => r = Num(0)

\* C7 witness: the goal is exceeded
C7_Witness ==
    /\ call.f = "remainingToGoal" /\ ret.done
    /\ call.x = [goal |-> Num(10), total |-> Num(14)]
    /\ ret.v = Num(0)

C9_DailyTotalNonNegative ==
    (call.f = "totalOunces" /\ ret.done) => (ret.v.k = "num" /\ ret.v.v >= 0)

\* C10: the grid of a month is startWeekday (Sunday = 0) nulls followed by
\* one cell per day, numbered 1..daysInMonth in ascending order, and nothing
\* after them; a placeholder is null and carries no field.
C10_MonthGridShape ==
    (call.f = "getMonthGrid" /\ ret.done) =>
        LET grid == ret.v
            sw == StartWeekdayRef(call.x.year, call.x.month)
            dim == DaysInMonthRef(call.x.year, call.x.month)
        IN /\ Len(grid) = sw + dim
           /\ \A i \in 1..sw : grid[i] = JSNull
           /\ \A d \in 1..dim : grid[sw + d] # JSNull /\ grid[sw + d].day = d

\* C10 witness: February 2024 starts on a Thursday and has 29 days
C10_Witness ==
    /\ call.f = "getMonthGrid" /\ ret.done
    /\ call.x.year = 2024 /\ call.x.month = 1
    /\ Len(ret.v) = 4 + 29
    /\ ret.v[4] = JSNull
    /\ ret.v[5] # JSNull

\* the grid, the totals and the real cells shown by the calendar screen
ShownGrid == getMonthGrid(calendarDate, tz)
ShownTotals == totalsByDate(entries)
ShownCells == RealCells(ShownGrid)

\* the greatest of a non-empty set of numbers
GreatestOf(S) == CHOOSE m \in S : \A x \in S : JSLessEq(x, m)

\* r is min(t / b, 1) for a total t >= 0 and a basis b > 0 that are not both
\* infinite: 1 when t >= b, else the number r with r * b = t
IsClampedQuotient(r, t, b) ==
    IF t.k = "inf" THEN r = Num(1)
    ELSE IF b.k = "inf" THEN r = Num(0)
    ELSE IF t.v >= b.v THEN r = Num(1)
    ELSE r.k \in {"num", "rat"} /\ NumOf(r) * b.v = DenOf(r) * t.v

\* C11: on the calendar screen the fill fraction of every real cell is
\* min(total / goal, 1) when a goal > 0 is set; otherwise it is
\* min(total / maxInMonth, 1) when the greatest total of the real cells is
\* > 0 and 0 when it is 0 (no goal, totals 10, 20, 5: 0.5, 1, 0.25).  The
\* quotient of an infinite total by an infinite basis is left open.
C11_FillFractionPolicy ==
    currentScreen = "calendar" =>
        LET grid == ShownGrid
            cells == RealCells(grid)
            totals == ShownTotals
            ps == percents(grid, totals, goalOunces)
            total == [i \in 1..Len(cells) |-> TotalAt(totals, cells[i].iso)]
            max == GreatestOf({ total[i] : i \in 1..Len(cells) })
            goalSet == goalOunces # JSNull /\ JSLess(Num(0), goalOunces)
        IN /\ Len(ps) = Len(cells)
           /\ \A i \in 1..Len(cells) :
                IF goalSet
                THEN (total[i].k = "inf" /\ goalOunces.k = "inf")
                        \/ IsClampedQuotient(ps[i], total[i], goalOunces)
                ELSE IF max = Num(0) THEN ps[i] = Num(0)
                ELSE (total[i].k = "inf" /\ max.k = "inf")
                        \/ IsClampedQuotient(ps[i], total[i], max)
           /\ (/\ goalOunces = JSNull /\ tz = 0
               /\ Len(entries) = 3 /\ entries[1].ounces = Num(5)
               /\ calendarDate = NewDate(2024, 1, 1, tz))
              => (ps[10] = Rat(1, 2) /\ ps[11] = Num(1) /\ ps[12] = Rat(1, 4))

\* C11 witness: February 2024 with day totals 10, 20 and 5 and no goal
C11_Witness ==
    /\ currentScreen = "calendar" /\ goalOunces = JSNull /\ tz = 0
    /\ calendarDate = NewDate(2024, 1, 1, tz)
    /\ TotalAt(ShownTotals, ShownCells[10].iso) = Num(10)
    /\ TotalAt(ShownTotals, ShownCells[11].iso) = Num(20)
    /\ TotalAt(ShownTotals, ShownCells[12].iso) = Num(5)
    /\ percents(ShownGrid, ShownTotals, goalOunces)[12] = Rat(1, 4)

\* C12: in every state of the App that shows the calendar, the fill fraction
\* of every real cell is a number in [0, 1].
C12_FillFractionInUnitInterval ==
    currentScreen = "calendar" =>
        LET ps == percents(ShownGrid, ShownTotals, goalOunces)
        IN \A i \in 1..Len(ps) :
              /\ ps[i].k \in {"num", "rat"}
              /\ 0 <= NumOf(ps[i])
              /\ NumOf(ps[i]) <= DenOf(ps[i])

\* the displayed year and month of a Date
YearMonth(d) == <<GetFullYear(d, tz), GetMonth(d, tz)>>

\* n applications of nextMonth, of prevMonth
RECURSIVE NextTimes(_, _)
NextTimes(n, d) ==
    IF n = 0 THEN d
    ELSE LET nd == nextMonth(d, tz)
         IN IF IsValidTime(nd) THEN NextTimes(n - 1, nd) ELSE nd
RECURSIVE PrevTimes(_, _)
PrevTimes(n, d) ==
    IF n = 0 THEN d
    ELSE LET pd == prevMonth(d, tz)
         IN IF IsValidTime(pd) THEN PrevTimes(n - 1, pd) ELSE pd

\* C13: from every displayed date, prevMonth after nextMonth, nextMonth after
\* prevMonth, and 12 times prevMonth after 12 times nextMonth give the
\* displayed year and month back.
C13_NavigationRoundTrip ==
    currentScreen = "calendar" =>
        /\ YearMonth(prevMonth(nextMonth(calendarDate, tz), tz)) = YearMonth(calendarDate)
        /\ YearMonth(nextMonth(prevMonth(calendarDate, tz), tz)) = YearMonth(calendarDate)
        /\ YearMonth(PrevTimes(12, NextTimes(12, calendarDate))) = YearMonth(calendarDate)
        /\ YearMonth(NextTimes(12, calendarDate)) =
              <<GetFullYear(calendarDate, tz) + 1, GetMonth(calendarDate, tz)>>

\* C13 witness: December 2023 displayed, reached from January 2024
C13_Witness ==
    /\ currentScreen = "calendar"
    /\ YearMonth(now) = <<2024, 0>>
    /\ YearMonth(calendarDate) = <<2023, 11>>

\* the month after and the month before year y, month m, from the calendar
MonthAfter(ym) == IF ym[2] = 11 THEN <<ym[1] + 1, 0>> ELSE <<ym[1], ym[2] + 1>>
MonthBefore(ym) == IF ym[2] = 0 THEN <<ym[1] - 1, 11>> ELSE <<ym[1], ym[2] - 1>>

\* d is the local midnight that begins day 1 of a month
IsFirstOfMonth(d) ==
    /\ IsValidTime(d)
    /\ GetDate(d, tz) = 1
    /\ LocalTime(d, tz).ms = 0

\* C14: a press of nextMonth displays day 1 of the month after the displayed
\* one and a press of prevMonth day 1 of the month before it, whatever the day
\* of the displayed date (December to January of the next year, January to
\* December of the previous year), and the date is valid.
C14_NavigationStepsOneMonth ==
    [][/\ NextMonth => /\ YearMonth(calendarDate') = MonthAfter(YearMonth(calendarDate))
                       /\ IsFirstOfMonth(calendarDate')
       /\ PrevMonth => /\ YearMonth(calendarDate') = MonthBefore(YearMonth(calendarDate))
                       /\ IsFirstOfMonth(calendarDate')]_vars

\* C14 witness: the calendar opened on 31 March displays 1 February after one
\* press of prevMonth
C14_Witness ==
    /\ currentScreen = "calendar"
    /\ YearMonth(now) = <<2024, 2>> /\ GetDate(now, tz) = 31
    /\ calendarDate = NewDate(2024, 1, 1, tz)

\* the total of day d of the month whose real cells are `cells`
DayTotal(cells, totals, d) ==
    LET c == CHOOSE c \in { cells[i] : i \in 1..Len(cells) } : c.day = d
    IN TotalAt(totals, c.iso)

\* C15: with a goal set the progress summary reports reached = the number of
\* days of the displayed month whose total is >= the goal and days = the
\* number of days of the displayed month, 0 <= reached <= days; with no goal
\* it reports "No goal set" and no count.
C15_GoalReachedCount ==
    currentScreen = "calendar" =>
        LET grid == ShownGrid
            cells == RealCells(grid)
            totals == ShownTotals
            p == progressText(grid, totals, goalOunces)
            ym == YearMonth(calendarDate)
            days == DaysInMonthRef(ym[1], ym[2])
            reached == { d \in 1..days :
                           JSLessEq(goalOunces, DayTotal(cells, totals, d)) }
        IN IF goalOunces = JSNull THEN p = [text |-> "No goal set"]
           ELSE /\ p.text = "reached"
                /\ p.days = days
                /\ p.reached = Cardinality(reached)
                /\ 0 <= p.reached /\ p.reached <= p.days

\* C15 witness: goal 10 in February 2024 with day totals 10, 20 and 5
C15_Witness ==
    /\ currentScreen = "calendar" /\ goalOunces = Num(10)
    /\ calendarDate = NewDate(2024, 1, 1, tz)
    /\ Len(entries) = 3 /\ entries[1].ounces = Num(5)
    /\ progressText(ShownGrid, ShownTotals, goalOunces)
          = [text |-> "reached", reached |-> 2, days |-> 29]

\* Texts of the ounces field that parse to a positive number, with the number.
ValidTexts ==
    { <<"8">>, <<"+", "8">>, <<" ", "8">>, <<"8", "o", "z">>, <<"1", "2">>,
      InfinityChars }
ParsedVolume(text) ==
    IF text = InfinityChars THEN PosInf
    ELSE IF text = <<"1", "2">> THEN Num(12)
    ELSE Num(8)

\* C16: a successful edit of the entry with id X leaves the length of the log,
\* the order, every id and every createdAt unchanged, leaves every entry with
\* an id other than X unchanged, and gives the entries with id X the parsed
\* volume and the selected timeOfDay.
C16_EditChangesOnlyTarget ==
    [][(/\ AddEntry
        /\ ounces \in ValidTexts
        /\ editingId # JSNull
        /\ \E i \in 1..Len(entries) : entries[i].id = editingId)
       => /\ Len(entries') = Len(entries)
          /\ \A i \in 1..Len(entries) :
               /\ entries'[i].id = entries[i].id
               /\ entries'[i].createdAt = entries[i].createdAt
               /\ entries[i].id # editingId => entries'[i] = entries[i]
               /\ entries[i].id = editingId =>
                    /\ entries'[i].ounces = ParsedVolume(ounces)
                    /\ entries'[i].timeOfDay = timeOfDay]_vars

\* C16 witness: the older of two entries edited from 8 to 12, the newer one
\* as it was
C16_Witness ==
    /\ ~modalVisible /\ editingId = JSNull
    /\ Len(entries) = 2
    /\ entries[1] = NewEntry(Num(6), TIMES[3], TimeAdd(StartTime, TickMs))
    /\ entries[2].ounces = Num(12)
    /\ entries[2].id = Str(DateNowString(StartTime))
    /\ entries[2].createdAt = ToISOString(StartTime)

\* C17: a valid save in edit mode whose editingId matches no entry leaves the
\* log unchanged and raises no alert.
C17_EditMissIsNoOp ==
    [][(/\ AddEntry
        /\ ounces \in ValidTexts
        /\ editingId # JSNull
        /\ \A i \in 1..Len(entries) : entries[i].id # editingId)
       => (entries' = entries /\ alert' = "none")]_vars

\* C17 witness: "12" was saved (the form closed) and the log of two entries
\* holds no volume 12
C17_Witness ==
    /\ ~modalVisible /\ editingId = JSNull /\ alert = "none"
    /\ ounces = <<"1", "2">>
    /\ Len(entries) = 2
    /\ \A i \in 1..2 : entries[i].ounces # Num(12)

\* C18: the Delete button of the confirmation for id X leaves exactly the
\* entries whose id is not X, unchanged and in their order; when no entry has
\* id X the log is unchanged.
C18_DeleteRemovesOnlyTarget ==
    [][\A id \in pendingDelete :
        AlertDelete(id) =>
          /\ entries' = SelectSeq(entries, LAMBDA e : e.id # id)
          /\ (\A i \in 1..Len(entries) : entries[i].id # id) => entries' = entries]_vars

\* C18 witness: the older of two entries was deleted, the newer one remains
C18_Witness ==
    /\ pendingDelete = {}
    /\ entries = <<NewEntry(Num(6), TIMES[3], TimeAdd(StartTime, TickMs))>>

\* C19: every entry of the log has a volume that is a finite number > 0.
C19_VolumesPositiveFinite ==
    \A i \in 1..Len(entries) :
        entries[i].ounces.k = "num" /\ entries[i].ounces.v > 0

\* C20: saveGoal on a text that does not parse to a number > 0 raises the
\* "Invalid goal" alert and leaves the goal unchanged; on a text that does it
\* replaces the goal by the parsed number; and the goal is always null or a
\* finite number > 0.
C20_GoalValidated ==
    /\ [][(SaveGoal /\ goalInput \in InvalidTexts)
            => (alert' = "Invalid goal" /\ goalOunces' = goalOunces)]_vars
    /\ [][(SaveGoal /\ goalInput \in ValidTexts)
            => goalOunces' = ParsedVolume(goalInput)]_vars
    /\ [](goalOunces = JSNull \/ (goalOunces.k = "num" /\ goalOunces.v > 0))

\* C21: a goal that is set is never returned to unset, and the goal changes
\* only in a step of saveGoal on a text that passes its validation, which
\* stores the parsed number; adding, editing, deleting, switching screens,
\* navigating months and the passing of days leave it alone.
C21_GoalPersists ==
    [][/\ goalOunces # JSNull => goalOunces' # JSNull
       /\ goalOunces' # goalOunces
            => /\ SaveGoal
               /\ ~Rejected(ParseFloat(goalInput))
               /\ goalOunces' = ParseFloat(goalInput)]_vars

\* C21 witness: the goal 8 is still set on the calendar screen, one month
\* away from the clock's month, with an entry in the log, after the day has
\* changed
C21_Witness ==
    /\ goalOunces = Num(8)
    /\ entries # <<>>
    /\ now # StartTime
    /\ currentScreen = "calendar"
    /\ MonthsAway(calendarDate) = 1

\* the entries of a list whose createdAt is a date
WellStamped(es) == SelectSeq(es, LAMBDA e : IsValidTime(DateParse(e.createdAt)))

\* C22: on a list holding an entry whose createdAt is no date, totalsByDate
\* returns a map (it does not throw) in which that entry is under a key that
\* is the key of no date, and the keys of the other entries carry the totals
\* of those entries alone.
C22_MalformedTimestampBucketed ==
    (call.f = "totalsByDate" /\ ret.done /\ WellStamped(call.x) # call.x)
      => /\ ~ret.v.threw
         /\ LET good == totalsByDate(WellStamped(call.x))
            IN /\ \A iso \in DOMAIN good :
                    iso \in DOMAIN ret.v.v /\ ret.v.v[iso] = good[iso]
               /\ \E iso \in DOMAIN ret.v.v :
                    /\ iso \notin DOMAIN good
                    /\ \A t \in ArgTimes : iso # KeyOfInstant(t)

\* the sum, by JavaScript's +, of the values of a map at the keys S
RECURSIVE MapSum(_, _)
MapSum(T, S) ==
    IF S = {} THEN Num(0)
    ELSE LET iso == CHOOSE k \in S : TRUE
         IN JSAdd(T[iso], MapSum(T, S \ {iso}))

\* C23: every value of totalsByDate is a finite number, and the values of
\* totalsByDate add up to totalOunces of the same log (both read a volume
\* that is not a finite number as 0).
C23_AggregateCoercesVolumes ==
    LET T == totalsByDate(entries)
    IN /\ \A iso \in DOMAIN T : NumberIsFinite(T[iso])
       /\ MapSum(T, DOMAIN T) = totalOunces(entries)

\* the text yyyy-mm-dd of year y, month m (0 = January) and day d
YMDKey(y, m, d) ==
    << DigitAt(y, 1000), DigitAt(y, 100), DigitAt(y, 10), DigitAt(y, 1), "-",
       DigitAt(m + 1, 10), DigitAt(m + 1, 1), "-", DigitAt(d, 10), DigitAt(d, 1) >>

\* C24: at every UTC offset the cell with day number d of the grid of a
\* month carries the key yyyy-mm-dd of the displayed year, the displayed
\* month and day d (so the keys of a grid are pairwise distinct and all lie
\* in the displayed month).
C24_CellKeyIsDisplayedDay ==
    (call.f = "getMonthGrid" /\ ret.done) =>
        LET cells == RealCells(ret.v)
        IN /\ \A i \in 1..Len(cells) :
                cells[i].iso = YMDKey(call.x.year, call.x.month, cells[i].day)
           /\ \A i, j \in 1..Len(cells) :
                cells[i].iso = cells[j].iso => i = j

\* C25: the keys of totalsByDate are exactly the keys (yyyy-mm-dd of the UTC
\* day of createdAt) of the entries of the log: a day without an entry has
\* no key, also after its last entry was deleted.
C25_KeysAreEntryDates ==
    DOMAIN totalsByDate(entries)
      = { KeyOfInstant(DateParse(entries[i].createdAt)) : i \in 1..Len(entries) }

\* C25 witness: the edit form is still open on the entry created after the
\* clock step, which was deleted since; the log holds the entry created
\* before the step, and the map has the key of that entry's day only
C25_Witness ==
    /\ modalVisible
    /\ editingId = Str(DateNowString(TimeAdd(StartTime, TickMs)))
    /\ Len(entries) = 1
    /\ entries[1].createdAt = ToISOString(StartTime)
    /\ DOMAIN totalsByDate(entries) = { KeyOfInstant(StartTime) }
    /\ KeyOfInstant(TimeAdd(StartTime, TickMs)) # KeyOfInstant(StartTime)

EditTargets == { i \in 1..Len(entries) : entries[i].id = editingId }

\* C27: whenever the entry form is open in edit mode the log holds an entry
\* with the id being edited, and every accepted save in edit mode applies to
\* exactly one entry of the log.
C27_EditTargetExists ==
    /\ []((modalVisible /\ Truthy(editingId)) => EditTargets # {})
    /\ [][(AddEntry /\ Truthy(editingId) /\ ~Rejected(ParseFloat(ounces)))
            => Cardinality(EditTargets) = 1]_vars

\* the entries of a log whose id is not id, in their order
OtherThan(es, id) == SelectSeq(es, LAMBDA e : e.id # id)

\* C28: pressing the Delete button of an entry and answering a confirmation
\* with Cancel leave the log unchanged; a step that takes a confirmation away
\* and changes the log is the confirmation's Delete; and that Delete, whatever
\* happened to the log since the request, leaves the entries with another id
\* than the captured one as they are and adds none.
C28_DeleteOnlyOnConfirmation ==
    [][/\ \A i \in 1..Len(entries) : ConfirmDelete(i) => entries' = entries
       /\ \A id \in pendingDelete : AlertCancel(id) => entries' = entries
       /\ (pendingDelete' # pendingDelete /\ entries' # entries)
            => \E id \in pendingDelete : AlertDelete(id)
       /\ \A id \in pendingDelete :
            AlertDelete(id)
              => /\ OtherThan(entries', id) = OtherThan(entries, id)
                 /\ Len(entries') <= Len(entries)]_vars

\* C28 witness: the entry created before the clock step was deleted by its
\* confirmation while the edit form was open on it; the entry created after
\* the step is still in the log
C28_Witness ==
    /\ pendingDelete = {}
    /\ modalVisible
    /\ editingId = Str(DateNowString(StartTime))
    /\ Len(entries) = 1
    /\ entries[1].id = Str(DateNowString(TimeAdd(StartTime, TickMs)))

\* C29: on the calendar screen, with or without a goal, the fill fraction of
\* a real cell is 0 exactly when the total of its day is 0, and the cell has
\* the blue ring and the inner fill (percent > 0) exactly when that total is
\* above 0.
C29_FillZeroIffTotalZero ==
    currentScreen = "calendar" =>
        LET grid == ShownGrid
            totals == ShownTotals
            cells == RealCells(grid)
            ps == percents(grid, totals, goalOunces)
        IN \A i \in 1..Len(cells) :
              LET total == TotalAt(totals, cells[i].iso)
              IN /\ (ps[i] = Num(0)) <=> (total = Num(0))
                 /\ JSLess(Num(0), ps[i]) <=> JSLess(Num(0), total)

\* C30: the home screen keeps no displayed month; every opening of the
\* calendar shows the month of the clock's date, whatever was displayed
\* before; and a step that switches the screen leaves the entry log and the
\* goal unchanged.
C30_CalendarOpensOnCurrentMonth ==
    /\ [](currentScreen = "home" => calendarDate = NoDate)
    /\ [][ViewCalendar => YearMonth(calendarDate') = YearMonth(now)]_vars
    /\ [][currentScreen' # currentScreen
            => (entries' = entries /\ goalOunces' = goalOunces)]_vars

\* C30 witness: the calendar is open on the month of the clock, which is not
\* the month of the start of the session, over a log with entries and with a
\* goal set
C30_Witness ==
    /\ currentScreen = "calendar"
    /\ YearMonth(calendarDate) = YearMonth(now)
    /\ YearMonth(now) # YearMonth(StartTime)
    /\ entries # <<>>
    /\ goalOunces # JSNull

=============================================================================
